---- MODULE Spec2Model ----
(***************************************************************************)
(* Model of the Form component of react-vanilla-form (src/index.js): the   *)
(* session state {data, errors}, the lens reads and writes of ramda the    *)
(* handlers use, handleChange, validateTree, componentWillMount,           *)
(* componentWillReceiveProps and handleSubmit.                             *)
(***************************************************************************)
EXTENDS Integers, Sequences, FiniteSets, TLC

VARIABLES props, state, event, validatorCalls, onChangeCalls, onSubmitCalls,
          changed

vars == <<props, state, event, validatorCalls, onChangeCalls, onSubmitCalls,
          changed>>

(***************************************************************************)
(* JavaScript values.  Every value is a record tagged with its type, so    *)
(* that values of different types compare unequal.  An object is a         *)
(* function from its own keys to values.                                   *)
(***************************************************************************)
Undefined == [t |-> "undefined"]
Null == [t |-> "null"]
False == [t |-> "boolean", b |-> FALSE]
Str(s) == [t |-> "string", s |-> s]
Obj(m) == [t |-> "object", m |-> m]
Fn(id) == [t |-> "function", f |-> id]
Arr(l) == [t |-> "array", l |-> l]
EmptyObj == Obj(<<>>)

IsObj(v) == v.t = "object"
IsNil(v) == v.t \in {"undefined", "null"}

\* Boolean(v): the falsy values are undefined, null, false and "".
Truthy(v) ==
  CASE v.t = "undefined" -> FALSE
    [] v.t = "null" -> FALSE
    [] v.t = "boolean" -> v.b
    [] v.t = "string" -> v.s # ""
    [] OTHER -> TRUE

\* obj[key]: a key of an object, or index 0 of a string of length 1 (the
\* strings held in the trees of this model have at most one character);
\* anything else reads undefined.
Prop(v, key) ==
  IF IsObj(v) /\ key \in DOMAIN v.m THEN v.m[key]
  ELSE IF v.t = "string" /\ v.s # "" /\ key = "0" THEN v
  ELSE Undefined

\* ramda path / view(lensPath(path)): stops with undefined at a nil value.
RECURSIVE View(_, _)
View(path, obj) ==
  IF path = <<>> THEN obj
  ELSE IF IsNil(obj) THEN Undefined
  ELSE View(Tail(path), Prop(obj, Head(path)))

\* A copy that takes no property over.
OwnPropsNone(v) == <<>>

\* The own enumerable properties a for-in loop copies: the keys of an object,
\* the one character of a string of length 1, none for "", a function or nil.
\* (The strings held in the trees of this model have at most one character.)
OwnProps(v) ==
  IF IsObj(v) THEN v.m
  ELSE IF v.t = "string" /\ v.s # "" THEN [k \in {"0"} |-> v]
  ELSE <<>>

\* An object that holds the one property set and nothing of obj.
AssocAlone(prop, val, obj) == Obj([k \in {prop} |-> val])

\* ramda assoc: a shallow copy of obj's enumerable properties with prop set.
Assoc(prop, val, obj) ==
  LET own == OwnProps(obj)
  IN Obj([k \in DOMAIN own \cup {prop} |-> IF k = prop THEN val ELSE own[k]])

\* ramda assocPath / set(lensPath(path)): a missing intermediate node is
\* created as an empty object (the keys of this model are never integers).
RECURSIVE AssocPath(_, _, _)

\* A write that gives up where an intermediate node is missing or is a leaf.
AssocPathNoCreate(path, val, obj) ==
  IF path = <<>> THEN val
  ELSE IF Len(path) > 1
    THEN IF IsObj(obj) /\ Head(path) \in DOMAIN obj.m /\ IsObj(obj.m[Head(path)])
           THEN Assoc(Head(path), AssocPath(Tail(path), val, obj.m[Head(path)]), obj)
           ELSE obj
    ELSE Assoc(Head(path), val, obj)

AssocPath(path, val, obj) ==
  IF path = <<>> THEN val
  ELSE IF Len(path) > 1
    THEN LET has == IsObj(obj) /\ Head(path) \in DOMAIN obj.m
             nextObj == IF ~IsNil(obj) /\ has THEN obj.m[Head(path)] ELSE EmptyObj
         IN Assoc(Head(path), AssocPath(Tail(path), val, nextObj), obj)
    ELSE Assoc(Head(path), val, obj)

\* defaultTo(''): nil becomes the empty string.
defaultToEmptyString(v) == IF IsNil(v) THEN Str("") ELSE v

(***************************************************************************)
(* Validator functions of the host.  Each returns a message on error and   *)
(* a falsy value otherwise; they differ in the falsy value they return.  *)
(***************************************************************************)
ValidatorIds == {"isNonEmpty", "isShort", "isNotA", "isNotAWorse", "hasText"}

Apply(f, v) ==
  CASE f = "isNonEmpty" -> IF v = Str("") THEN Str("required") ELSE Null
    [] f = "isShort" -> Null
    [] f = "isNotA" -> IF v = Str("a") THEN Str("bad") ELSE Undefined
    [] f = "isNotAWorse" -> IF v = Str("a") THEN Str("worse") ELSE Str("")
    [] f = "hasText" -> IF v = Str("") THEN Str("empty") ELSE False

\* ramda ap(fns, [value]): every function of the list applied to the value.
ap(fns, value) == [i \in 1..Len(fns) |-> Apply(fns[i].f, value)]

\* The truthy results in reverse order: the last failure would win.
RejectFalsyReversed(results) ==
  LET kept == SelectSeq(results, Truthy)
  IN [i \in 1..Len(kept) |-> kept[Len(kept) + 1 - i]]

\* reject(complement(Boolean)): the truthy results, in order.
RejectFalsy(results) == SelectSeq(results, Truthy)

\* The calls ap makes, in order.
CallsOf(fns, value) == [i \in 1..Len(fns) |-> [f |-> fns[i].f, arg |-> value]]

(***************************************************************************)
(* React elements: a text child is a string; an element has props name,    *)
(* children (undefined, one element, or an array) and, for an error label  *)
(* (role=alert), htmlFor.                                                   *)
(***************************************************************************)
Element(name, children, htmlFor) ==
  [t |-> "element", name |-> name, children |-> children, htmlFor |-> htmlFor]
Input(n) == Element(Str(n), Undefined, Undefined)
Alert(n) == Element(Undefined, Undefined, Str(n))
Group(n, kids) == Element(Str(n), Arr(kids), Undefined)
GroupOfOne(n, kid) == Element(Str(n), kid, Undefined)
Wrapper(kids) == Element(Undefined, Arr(kids), Undefined)
WrapperOfOne(kid) == Element(Undefined, kid, Undefined)
Text == Str("t")

\* The property key a name is used as: String(undefined) is "undefined".
PropKey(name) == IF name.t = "string" THEN name.s ELSE "undefined"

\* React.Children.map's view of props.children as a list.
ChildList(children) ==
  IF children.t = "array" THEN children.l
  ELSE IF IsNil(children) THEN <<>>
  ELSE <<children>>

\* cloneTree: the paths of the controls that get an onChange handler, i.e.
\* the named elements without children; every named ancestor contributes its
\* name, an error label (role=alert with htmlFor) contributes nothing.
RECURSIVE FieldPaths(_, _)
FieldPaths(element, parentPath) ==
  IF element.t = "string" THEN {}
  ELSE IF Truthy(element.htmlFor) THEN {}
  ELSE LET name == IF ~IsNil(element.name) THEN <<element.name.s>> ELSE <<>>
           path == parentPath \o name
           kids == ChildList(element.children)
       IN IF Truthy(element.children)
            THEN UNION {FieldPaths(kids[i], path) : i \in 1..Len(kids)}
          ELSE IF Len(name) > 0 THEN {path}
          ELSE {}

\* render: the form maps cloneTree over its children with an empty parent path.
FormPaths(children) ==
  LET kids == ChildList(children)
  IN UNION {FieldPaths(kids[i], <<>>) : i \in 1..Len(kids)}

\* cloneTree: the path of every named element, the controls and the groups
\* that hold them alike.
RECURSIVE NamedPaths(_, _)
NamedPaths(element, parentPath) ==
  IF element.t = "string" THEN {}
  ELSE IF Truthy(element.htmlFor) THEN {}
  ELSE LET name == IF ~IsNil(element.name) THEN <<element.name.s>> ELSE <<>>
           path == parentPath \o name
           kids == ChildList(element.children)
       IN (IF Len(name) > 0 THEN {path} ELSE {}) \cup
          (IF Truthy(element.children)
             THEN UNION {NamedPaths(kids[i], path) : i \in 1..Len(kids)}
             ELSE {})

FormNamedPaths(children) ==
  LET kids == ChildList(children)
  IN UNION {NamedPaths(kids[i], <<>>) : i \in 1..Len(kids)}

\* The Form component itself, as validateTree sees it (this.props).
FormElement(p) == Element(Undefined, p.children, Undefined)

\* What a call of validateTree yields: the value it returns, the validator
\* calls it made, and whether it threw instead of returning.
Returned(errors, calls) == [ret |-> errors, calls |-> calls, threw |-> FALSE]
Threw(calls) == [ret |-> Undefined, calls |-> calls, threw |-> TRUE]

\* A field validation that records a message whether or not the field has a
\* validator entry.
ValidateFieldUnchecked(this, errors, element, parentPath) ==
  Returned(Assoc(element.name.s, Str("required"), errors), <<>>)

\* validateTree, lines 200-241: a named element whose children are no array.
ValidateField(this, errors, element, parentPath) ==
  LET path == Append(parentPath, element.name.s)
      validation == View(path, this.props.validation)
      value == defaultToEmptyString(View(path, this.state.data))
  IN IF ~Truthy(validation) THEN Returned(errors, <<>>)
     ELSE IF validation.t = "array"
       THEN LET validationErrors == RejectFalsy(ap(validation.l, value))
                calls == CallsOf(validation.l, value)
            IN IF Len(validationErrors) > 0
                 THEN Returned(Assoc(element.name.s, validationErrors[1], errors), calls)
                 ELSE Returned(errors, calls)
     ELSE IF validation.t # "function" THEN Threw(<<>>)
     ELSE LET validationError == Apply(validation.f, value)
              calls == <<[f |-> validation.f, arg |-> value]>>
          IN IF ~Truthy(validationError) THEN Returned(errors, calls)
             ELSE Returned(Assoc(element.name.s, validationError, errors), calls)

RECURSIVE ValidateTree(_, _, _, _)
RECURSIVE ReduceChildren(_, _, _, _)

\* reduce(partialRight(this.validateTree, [path]), acc, children): once a call
\* throws, the exception ends the reduction.
ReduceChildren(this, acc, children, path) ==
  IF children = <<>> \/ acc.threw THEN acc
  ELSE LET r == ValidateTree(this, acc.ret, Head(children), path)
           next == [ret |-> r.ret, calls |-> acc.calls \o r.calls, threw |-> r.threw]
       IN ReduceChildren(this, next, Tail(children), path)

\* validateTree (errors, element, parentPath).
ValidateTree(this, errors, element, parentPath) ==
  IF element.t = "string" THEN Returned(errors, <<>>)
  ELSE IF element.t # "element" THEN Returned(errors, <<>>)
  ELSE IF element.children.t = "array"
    THEN LET path == IF Truthy(element.name)
                       THEN Append(parentPath, element.name.s)
                       ELSE parentPath
             validated == ReduceChildren(this, Returned(EmptyObj, <<>>),
                                         element.children.l, path)
         IN IF validated.threw THEN validated
            ELSE IF Len(path) > 0
              THEN Returned(Assoc(PropKey(element.name), validated.ret, errors),
                            validated.calls)
            ELSE validated
  ELSE IF Truthy(element.name) THEN ValidateField(this, errors, element, parentPath)
  ELSE Returned(errors, <<>>)

(***************************************************************************)
(* The forms and validation objects a host mounts.                         *)
(***************************************************************************)
EmailChain == Arr(<<Fn("isShort"), Fn("isNotA"), Fn("isNotAWorse")>>)

FlatForm ==
  [children |-> Arr(<<Input("email"), Alert("email"), Input("note")>>),
   validation |-> Obj([email |-> EmailChain])]

NestedForm ==
  [children |-> Arr(<<Group("address", <<Input("zip"), Alert("zip")>>), Input("nick")>>),
   validation |-> Obj([address |-> Obj([zip |-> Fn("isNonEmpty")]),
                       nick |-> Fn("hasText")])]

WrappedForm ==
  [children |-> Arr(<<Group("address", <<Wrapper(<<Input("zip"), Alert("zip")>>),
                                          Wrapper(<<Text, Input("street")>>)>>),
                      Text>>),
   validation |-> Obj([address |-> Obj([zip |-> Fn("isNonEmpty"),
                                        street |-> Fn("hasText")])])]

SingleChildForm ==
  [children |-> Input("email"),
   validation |-> Obj([email |-> Fn("isNonEmpty")])]

SingleChildGroupForm ==
  [children |-> Arr(<<GroupOfOne("address", Input("zip")), Input("email")>>),
   validation |-> Obj([address |-> Obj([zip |-> Fn("isNonEmpty")]),
                       email |-> Fn("isNonEmpty")])]

TopWrapperForm ==
  [children |-> Arr(<<Input("email"), Wrapper(<<Input("nick"), Alert("nick")>>)>>),
   validation |-> Obj([email |-> Fn("isNonEmpty"), nick |-> EmailChain])]

\* A group none of whose controls has a validator.
OptionalGroupForm ==
  [children |-> Arr(<<Group("extra", <<Input("memo"), Text>>), Input("email")>>),
   validation |-> Obj([email |-> Fn("isNonEmpty")])]

Forms == {FlatForm, NestedForm, WrappedForm, SingleChildForm,
          SingleChildGroupForm, TopWrapperForm, OptionalGroupForm}

\* The strings a control delivers as event.target.value.
InputValues == {Str(""), Str("a")}

\* A data object with every field of the form set to v.
RECURSIVE Fill(_, _, _)
Fill(paths, v, obj) ==
  IF paths = {} THEN obj
  ELSE LET p == CHOOSE q \in paths : TRUE
       IN Fill(paths \ {p}, v, AssocPath(p, v, obj))

\* The data objects a host passes as the data prop (null: no data prop).
DataProps(children) ==
  {Null, EmptyObj} \cup {Fill(FormPaths(children), v, EmptyObj) : v \in InputValues}

(***************************************************************************)
(* The component.  props and state are this.props and this.state; event    *)
(* is the handler that ran last; validatorCalls, onChangeCalls and         *)
(* onSubmitCalls are the calls it made to the host's functions.  changed   *)
(* is a history variable: the paths handleChange has been called with      *)
(* since the session began, as long as the session began with an empty     *)
(* error tree and nothing but handleChange has run (only).                 *)
(***************************************************************************)
This == [props |-> props, state |-> state]

\* A setState without the callback: the change handler is never called.
NotifyNothing(newState) == <<>>

\* onChange called before the update is applied: it reads the state as it was.
NotifyStaleState(newState) ==
  IF props.onChange THEN <<[data |-> state.data, errors |-> state.errors]>>
  ELSE <<>>

\* notifyChangeEvent, run as the callback of setState: reads the new state.
NotifyChangeEvent(newState) ==
  IF props.onChange THEN <<[data |-> newState.data, errors |-> newState.errors]>>
  ELSE <<>>

\* constructor, then componentWillMount.
Constructed(p) ==
  [errors |-> EmptyObj, data |-> IF Truthy(p.data) THEN p.data ELSE EmptyObj]

Mount(p) ==
  LET this == [props |-> p, state |-> Constructed(p)]
  IN IF Truthy(p.data) THEN ValidateTree(this, EmptyObj, FormElement(p), <<>>)
     ELSE Returned(EmptyObj, <<>>)

\* A session exists once the component has mounted without throwing.
Mounted(form, onChange, data) ==
  LET p == [children |-> form.children, validation |-> form.validation,
            data |-> data, onChange |-> onChange]
      mounted == Mount(p)
  IN /\ ~mounted.threw
     /\ props = p
     /\ state = [Constructed(p) EXCEPT !.errors = mounted.ret]
     /\ event = [op |-> "mount", threw |-> FALSE]
     /\ validatorCalls = mounted.calls
     /\ onChangeCalls = <<>>
     /\ onSubmitCalls = <<>>
     /\ changed = [only |-> mounted.ret = EmptyObj, paths |-> {}]

Init ==
  \E form \in Forms, onChange \in BOOLEAN :
    \E data \in DataProps(form.children) : Mounted(form, onChange, data)

\* A lifecycle method that throws takes the component down.
Alive == ~(event.op = "receiveProps" /\ event.threw)

\* handleChange (path, event), with value = event.target.value.
HandleChange(path, value) ==
  LET data == AssocPath(path, value, state.data)
      validate == View(path, props.validation)
  IN /\ Alive
     /\ UNCHANGED <<props, onSubmitCalls>>
     /\ changed' = IF changed.only THEN [changed EXCEPT !.paths = @ \cup {path}]
                 ELSE changed
     /\ IF ~Truthy(validate)
          THEN /\ state' = [state EXCEPT !.data = data]
               /\ validatorCalls' = <<>>
               /\ onChangeCalls' = NotifyChangeEvent(state')
               /\ event' = [op |-> "change", path |-> path, value |-> value, threw |-> FALSE]
        ELSE IF validate.t = "array"
          THEN LET validationErrors == RejectFalsy(ap(validate.l, value))
                   errors == IF Len(validationErrors) > 0
                               THEN AssocPath(path, validationErrors[1], state.errors)
                               ELSE AssocPath(path, Null, state.errors)
               IN /\ state' = [data |-> data, errors |-> errors]
                  /\ validatorCalls' = CallsOf(validate.l, value)
                  /\ onChangeCalls' = NotifyChangeEvent(state')
                  /\ event' = [op |-> "change", path |-> path, value |-> value, threw |-> FALSE]
        ELSE IF validate.t # "function"
          THEN /\ UNCHANGED state
               /\ validatorCalls' = <<>>
               /\ onChangeCalls' = <<>>
               /\ event' = [op |-> "change", path |-> path, value |-> value, threw |-> TRUE]
        ELSE LET arg == defaultToEmptyString(View(path, data))
                 validation == Apply(validate.f, arg)
                 errors == AssocPath(path, validation, state.errors)
             IN /\ state' = [data |-> data, errors |-> errors]
                /\ validatorCalls' = <<[f |-> validate.f, arg |-> arg]>>
                /\ onChangeCalls' = NotifyChangeEvent(state')
                /\ event' = [op |-> "change", path |-> path, value |-> value, threw |-> FALSE]

\* componentWillReceiveProps (nextProps): the host renders the form again with
\* a data prop; afterwards this.props is nextProps.
ComponentWillReceiveProps(data) ==
  /\ Alive
  /\ UNCHANGED onSubmitCalls
  /\ changed' = [only |-> FALSE, paths |-> {}]
  /\ onChangeCalls' = <<>>
  /\ props' = [props EXCEPT !.data = data]
  /\ IF Truthy(data) /\ data # props.data
       THEN LET r == ValidateTree(This, state.errors, FormElement(props), <<>>)
            IN /\ validatorCalls' = r.calls
               /\ event' = [op |-> "receiveProps", data |-> data, threw |-> r.threw]
               /\ state' = IF r.threw THEN state ELSE [data |-> data, errors |-> r.ret]
       ELSE /\ validatorCalls' = <<>>
            /\ event' = [op |-> "receiveProps", data |-> data, threw |-> FALSE]
            /\ UNCHANGED state

\* A submit that clears the form once its data is forwarded.
HandleSubmitReset ==
  LET r == ValidateTree(This, state.errors, FormElement(props), <<>>)
  IN /\ Alive
     /\ UNCHANGED props
     /\ changed' = [only |-> FALSE, paths |-> {}]
     /\ onChangeCalls' = <<>>
     /\ validatorCalls' = r.calls
     /\ event' = [op |-> "submit", threw |-> r.threw, again |-> event.op = "submit"]
     /\ state' = IF r.threw THEN state ELSE [data |-> EmptyObj, errors |-> r.ret]
     /\ onSubmitCalls' = IF r.threw THEN <<>> ELSE <<state.data>>

\* handleSubmit (event): setState({ errors }) has no callback, and the submit
\* handler gets this.state.data.  event.again records that the handler that
\* ran before this submit was a submit too.
HandleSubmit ==
  LET r == ValidateTree(This, state.errors, FormElement(props), <<>>)
  IN /\ Alive
     /\ UNCHANGED props
     /\ changed' = [only |-> FALSE, paths |-> {}]
     /\ onChangeCalls' = <<>>
     /\ validatorCalls' = r.calls
     /\ event' = [op |-> "submit", threw |-> r.threw, again |-> event.op = "submit"]
     /\ state' = IF r.threw THEN state ELSE [state EXCEPT !.errors = r.ret]
     /\ onSubmitCalls' = IF r.threw THEN <<>> ELSE <<state.data>>

\* The data props a host passes on a later render: a fresh object, or (a
\* controlled form) the data it was handed by onChange.
NextDataProps == DataProps(props.children) \cup {state.data}

Next ==
  \/ \E path \in FormPaths(props.children), value \in InputValues :
       HandleChange(path, value)
  \/ \E data \in NextDataProps : ComponentWillReceiveProps(data)
  \/ HandleSubmit

Spec == Init /\ [][Next]_vars

(***************************************************************************)
(* Handlers called back to back inside one batch of React (one event       *)
(* handler of the host, or batchedUpdates): setState only queues its       *)
(* partial state, this.state keeps its value until the batch ends, then    *)
(* the partial states are merged in call order and the callbacks run.      *)
(***************************************************************************)
\* this.state with a queued partial state merged in.
Merge(st, patch) == [k \in DOMAIN st |-> IF k \in DOMAIN patch THEN patch[k] ELSE st[k]]

\* handleChange up to its setState: the partial state it passes, the
\* validator calls it makes, and whether it throws before setState.
ChangePatch(path, value) ==
  LET data == AssocPath(path, value, state.data)
      validate == View(path, props.validation)
  IN IF ~Truthy(validate)
       THEN [patch |-> [data |-> data], calls |-> <<>>, threw |-> FALSE]
     ELSE IF validate.t = "array"
       THEN LET validationErrors == RejectFalsy(ap(validate.l, value))
                errors == IF Len(validationErrors) > 0
                            THEN AssocPath(path, validationErrors[1], state.errors)
                            ELSE AssocPath(path, Null, state.errors)
            IN [patch |-> [data |-> data, errors |-> errors],
                calls |-> CallsOf(validate.l, value), threw |-> FALSE]
     ELSE IF validate.t # "function"
       THEN [patch |-> << >>, calls |-> <<>>, threw |-> TRUE]
     ELSE LET arg == defaultToEmptyString(View(path, data))
              errors == AssocPath(path, Apply(validate.f, arg), state.errors)
          IN [patch |-> [data |-> data, errors |-> errors],
              calls |-> <<[f |-> validate.f, arg |-> arg]>>, threw |-> FALSE]

\* Two handleChange calls at different paths in one batch: both read the
\* same this.state; both callbacks run after the merge.
BatchedChanges(path1, value1, path2, value2) ==
  LET first == ChangePatch(path1, value1)
      second == ChangePatch(path2, value2)
  IN /\ Alive
     /\ path1 # path2
     /\ ~first.threw /\ ~second.threw
     /\ UNCHANGED <<props, onSubmitCalls>>
     /\ changed' = [only |-> FALSE, paths |-> {}]
     /\ state' = Merge(Merge(state, first.patch), second.patch)
     /\ validatorCalls' = first.calls \o second.calls
     /\ onChangeCalls' = NotifyChangeEvent(state') \o NotifyChangeEvent(state')
     /\ event' = [op |-> "changes", path |-> path1, value |-> value1,
                  path2 |-> path2, value2 |-> value2, threw |-> FALSE]

\* A handleChange and then a handleSubmit in one batch: handleSubmit reads the
\* same this.state; if validateTree throws, the queued change is still applied.
BatchedChangeSubmit(path, value) ==
  LET first == ChangePatch(path, value)
      r == ValidateTree(This, state.errors, FormElement(props), <<>>)
      changedState == Merge(state, first.patch)
  IN /\ Alive
     /\ ~first.threw
     /\ UNCHANGED props
     /\ changed' = [only |-> FALSE, paths |-> {}]
     /\ state' = IF r.threw THEN changedState
                 ELSE Merge(changedState, [errors |-> r.ret])
     /\ validatorCalls' = first.calls \o r.calls
     /\ onChangeCalls' = NotifyChangeEvent(state')
     /\ onSubmitCalls' = IF r.threw THEN <<>> ELSE <<state.data>>
     /\ event' = [op |-> "changeSubmit", path |-> path, value |-> value,
                  threw |-> r.threw]

\* The events of the controls and of the form alone (the data prop stays as
\* mounted), one per batch or two in one batch.
NextBatched ==
  \/ \E path \in FormPaths(props.children), value \in InputValues :
       HandleChange(path, value)
  \/ HandleSubmit
  \/ \E path1, path2 \in FormPaths(props.children), value1, value2 \in InputValues :
       BatchedChanges(path1, value1, path2, value2)
  \/ \E path \in FormPaths(props.children), value \in InputValues :
       BatchedChangeSubmit(path, value)

SpecBatched == Init /\ [][NextBatched]_vars

(***************************************************************************)
(* Sessions with the inputs the contract does not promise: a control whose *)
(* event.target.value is undefined, and a data prop that holds a string    *)
(* where the form has a group.                                             *)
(***************************************************************************)
WideInputValues == InputValues \cup {Undefined}

\* The data props above, and for every field inside a group a data object
\* whose node at the group's path is a leaf.
WideDataProps(children) ==
  DataProps(children) \cup
    {AssocPath(SubSeq(P, 1, Len(P) - 1), Str("a"), EmptyObj) :
       P \in {Q \in FormPaths(children) : Len(Q) > 1}}

InitWide ==
  \E form \in Forms, onChange \in BOOLEAN :
    \E data \in WideDataProps(form.children) : Mounted(form, onChange, data)

\* The events of the controls and of the form (the data prop stays as
\* mounted).
NextWide ==
  \/ \E path \in FormPaths(props.children), value \in WideInputValues :
       HandleChange(path, value)
  \/ HandleSubmit

SpecWide == InitWide /\ [][NextWide]_vars

(***************************************************************************)
(* Forms whose validation object disagrees with the shape of the form: a   *)
(* control below a group whose entry is a function or a list, and a        *)
(* control whose entry is a mapping.                                       *)
(***************************************************************************)
BelowFunctionForm ==
  [children |-> Arr(<<Group("address", <<Input("zip"), Text>>), Input("note")>>),
   validation |-> Obj([address |-> Fn("isNonEmpty")])]

BelowListForm ==
  [children |-> Arr(<<Group("address", <<Input("zip"), Alert("zip")>>), Text>>),
   validation |-> Obj([address |-> EmailChain])]

OnMappingForm ==
  [children |-> Arr(<<Input("address"), Input("note")>>),
   validation |-> Obj([address |-> Obj([zip |-> Fn("isNonEmpty")]),
                       note |-> Fn("hasText")])]

MisconfiguredForms == {BelowFunctionForm, BelowListForm, OnMappingForm}

InitMisconfigured ==
  \E form \in MisconfiguredForms, onChange \in BOOLEAN :
    \E data \in DataProps(form.children) : Mounted(form, onChange, data)

SpecMisconfigured == InitMisconfigured /\ [][Next]_vars

(***************************************************************************)
(* What the properties below speak of.                                     *)
(***************************************************************************)
\* The validator entry at a field's path, and whether it is one (a function
\* or a list of functions).
Entry(P) == View(P, props.validation)
IsEntry(e) == e.t \in {"function", "array"}

\* The value of a field as the validators are to see it.
ValueAt(P, data) == defaultToEmptyString(View(P, data))

\* The results of the functions of an entry on a value, in list order.
Results(e, v) ==
  IF e.t = "array" THEN [i \in 1..Len(e.l) |-> Apply(e.l[i].f, v)]
  ELSE <<Apply(e.f, v)>>

\* The message an entry yields for a value: the first truthy result in list
\* order, and null when every result is falsy.
FirstMessage(e, v) ==
  LET r == Results(e, v)
      failing == {i \in DOMAIN r : Truthy(r[i])}
  IN IF failing = {} THEN Null
     ELSE r[CHOOSE i \in failing : \A j \in failing : i <= j]

IsMessage(v) == v.t = "string" /\ v.s # ""

\* Every non-empty key path of a tree.
RECURSIVE KeyPaths(_)
KeyPaths(tree) ==
  IF ~IsObj(tree) THEN {}
  ELSE UNION {{<<k>>} \cup {<<k>> \o q : q \in KeyPaths(tree.m[k])} : k \in DOMAIN tree.m}

IsPrefix(p, q) == Len(p) <= Len(q) /\ SubSeq(q, 1, Len(p)) = p

\* The state is the outcome of a full validation that returned: the mount of
\* a form seeded with data, or a submit.
AfterFullValidation ==
  /\ event.op \in {"mount", "submit"}
  /\ ~event.threw
  /\ event.op = "mount" => Truthy(props.data)

\* The error tree one validateTree call builds from scratch over a data tree.
FromScratch(data) ==
  ValidateTree([props |-> props, state |-> [data |-> data, errors |-> EmptyObj]],
               EmptyObj, FormElement(props), <<>>)

\* C1: after a full validation (the mount of a seeded form, or a submit),
\* every field of the form whose validator entry yields a message for the
\* field's current value has exactly that message at its path in the error
\* tree, whatever the field's depth, siblings and wrappers.
C1_Completeness ==
  AfterFullValidation =>
    \A P \in FormPaths(props.children) :
      (IsEntry(Entry(P)) /\ IsMessage(FirstMessage(Entry(P), ValueAt(P, state.data))))
        => View(P, state.errors) = FirstMessage(Entry(P), ValueAt(P, state.data))

\* C2: in the error tree a full validation produces, every key path is the
\* path of a named element of the form (a field's path or a prefix of one),
\* and every leaf at a path P is the message the entry at P returns for the
\* data value at P.
C2_ShapeSoundness ==
  AfterFullValidation =>
    \A P \in KeyPaths(state.errors) :
      /\ \E F \in FormPaths(props.children) : IsPrefix(P, F)
      /\ ~IsObj(View(P, state.errors)) =>
           /\ IsEntry(Entry(P))
           /\ View(P, state.errors) = FirstMessage(Entry(P), ValueAt(P, state.data))

\* The calls among validatorCalls that went to a function of the list l.
CallsTo(l) ==
  SelectSeq(validatorCalls, LAMBDA c : \E i \in 1..Len(l) : l[i].f = c.f)

\* The calls that apply every function of l once, in list order, to v.
EveryFunctionOn(l, v) == [i \in 1..Len(l) |-> [f |-> l[i].f, arg |-> v]]

\* What is recorded at P agrees with the first-failure rule for value v: the
\* first truthy result in list order, and no message when there is none.
FirstFailureRecorded(P, v) ==
  LET m == FirstMessage(Entry(P), v)
  IN IF IsMessage(m) THEN View(P, state.errors) = m
     ELSE ~IsMessage(View(P, state.errors))

\* C3: first failure wins for a list entry [f1..fn].  After handleChange at
\* the field, every function of the list was applied to the changed value,
\* in order, and the error at the field is the first truthy result (no
\* message if none is truthy).  In a validateTree walk that reaches the
\* field, every function of the list was applied to the field's value, in
\* order, and the walk's error tree holds the first truthy result at the
\* field (no message if none); and the step of the walk at the field files
\* exactly the first truthy result under the field's name, or nothing.
C3_FirstFailureWins ==
  \A P \in FormPaths(props.children) :
    Entry(P).t = "array" =>
      LET l == Entry(P).l
          field == Input(P[Len(P)])
          parentPath == SubSeq(P, 1, Len(P) - 1)
          v == ValueAt(P, state.data)
          step == ValidateTree(This, EmptyObj, field, parentPath)
      IN /\ (event.op = "change" /\ event.path = P) =>
              /\ validatorCalls = EveryFunctionOn(l, event.value)
              /\ FirstFailureRecorded(P, event.value)
         /\ (event.op \in {"mount", "submit", "receiveProps"} /\ CallsTo(l) # <<>>) =>
              /\ CallsTo(l) = EveryFunctionOn(l, CallsTo(l)[1].arg)
              /\ FirstFailureRecorded(P, CallsTo(l)[1].arg)
         /\ step.calls = EveryFunctionOn(l, v)
         /\ step.ret = IF IsMessage(FirstMessage(Entry(P), v))
                         THEN Obj([k \in {P[Len(P)]} |-> FirstMessage(Entry(P), v)])
                         ELSE EmptyObj

\* A submit has walked a form whose list entry's first function passes and
\* whose second and third both fail: the second's message is recorded.
C3_Witness ==
  /\ event.op = "submit"
  /\ Len(validatorCalls) = 3
  /\ validatorCalls[1].arg = Str("a")
  /\ Apply(validatorCalls[1].f, Str("a")) = Null
  /\ Apply(validatorCalls[3].f, Str("a")) = Str("worse")
  /\ View(<<"email">>, state.errors) = Str("bad")

\* A step is a handleChange that returned (event is the handler that ran).
ChangeStep == event'.op = "change" /\ ~event'.threw

\* C4: when a field whose validator entry is present (a function or a list)
\* holds a message, a handleChange at that path with a value for which every
\* validator returns a falsy value, whichever one, sets the error at the path
\* to exactly null.
C4_ClearingWritesNull ==
  [][(/\ ChangeStep
      /\ IsEntry(Entry(event'.path))
      /\ IsMessage(View(event'.path, state.errors))
      /\ ~IsMessage(FirstMessage(Entry(event'.path), event'.value)))
       => View(event'.path, state'.errors) = Null]_vars

\* C5: a handleChange at a path where no validator entry resolves puts the
\* value at the path in the data tree, leaves the whole error tree as it
\* was, and still notifies the registered change handler, with the new data
\* and the unchanged errors.
C5_NoValidatorNoErrorWrite ==
  [][(ChangeStep /\ ~Truthy(Entry(event'.path))) =>
       /\ View(event'.path, state'.data) = event'.value
       /\ state'.errors = state.errors
       /\ ~IsMessage(View(event'.path, state'.errors))
       /\ props.onChange =>
            onChangeCalls' = <<[data |-> state'.data, errors |-> state.errors]>>]_vars

\* A field without a validator entry has just changed while another field
\* holds a message, and the change handler was notified.
C5_Witness ==
  /\ event.op = "change"
  /\ ~Truthy(Entry(event.path))
  /\ event.value = Str("a")
  /\ View(<<"email">>, state.errors) = Str("bad")
  /\ Len(onChangeCalls) = 1

\* C6: in a session that began with an empty error tree and in which
\* handleChange has run for every field, and nothing else has run, the error
\* tree equals the tree one validateTree call builds over the final data.
C6_FullIncrementalAgreement ==
  (changed.only /\ changed.paths = FormPaths(props.children)) =>
    state.errors = FromScratch(state.data).ret

\* C7: every submit calls the host's submit handler exactly once, with the
\* current data tree, and leaves the data tree as it was.
C7_SubmitForwardsData ==
  [][event'.op = "submit" =>
       /\ onSubmitCalls' = <<state.data>>
       /\ state'.data = state.data]_vars

\* C8: the error tree a submit stores is the tree validateTree builds from
\* scratch over the current data, whatever the error tree was before.
C8_SubmitRevalidatesFromScratch ==
  [][(event'.op = "submit" /\ ~event'.threw) =>
       state'.errors = FromScratch(state.data).ret]_vars

\* The host passes a data prop that triggers the replacement.
ReplaceStep ==
  /\ event'.op = "receiveProps"
  /\ Truthy(event'.data)
  /\ event'.data # props.data

\* C9: after a replacement that is triggered, the session holds the new data
\* and the error tree of a full validation of the new data.
C9_ReplacementValidatesNewData ==
  [][(ReplaceStep /\ ~event'.threw) =>
       /\ state'.data = event'.data
       /\ state'.errors = FromScratch(event'.data).ret]_vars

\* C10: a data object passed by the host is adopted exactly when it differs
\* structurally from the data tree the session holds; when it equals that
\* tree, data and errors stay as they are.
C10_ReplacementTrigger ==
  [][(event'.op = "receiveProps" /\ ~event'.threw /\ IsObj(event'.data)) =>
       IF event'.data # state.data
         THEN state'.data = event'.data
         ELSE state' = state]_vars

\* C11: before any field interaction, the error tree of a form constructed
\* with initial data is the full validation of that data, so that every
\* seeded field failing its validator has its message; a form constructed
\* without initial data has an empty data tree and an empty error tree.
C11_InitialValidation ==
  event.op = "mount" =>
    IF Truthy(props.data)
      THEN /\ state.data = props.data
           /\ state.errors = FromScratch(props.data).ret
           /\ \A P \in FormPaths(props.children) :
                (IsEntry(Entry(P)) /\ IsMessage(FirstMessage(Entry(P), ValueAt(P, props.data))))
                  => View(P, state.errors) = FirstMessage(Entry(P), ValueAt(P, props.data))
      ELSE state.data = EmptyObj /\ state.errors = EmptyObj

\* The state stored after the step, as the change handler is to receive it.
StoredPair == <<[data |-> state'.data, errors |-> state'.errors]>>

\* C12 as claimed: a registered change handler is called, with the stored
\* (data, errors) pair, after each field change, after each replacement that
\* changes the state and after each submit revalidation.
C12_NotifiedOnEveryUpdate ==
  [][props.onChange =>
       /\ ChangeStep => onChangeCalls' = StoredPair
       /\ (event'.op = "receiveProps" /\ state' # state) => onChangeCalls' = StoredPair
       /\ (event'.op = "submit" /\ ~event'.threw) => onChangeCalls' = StoredPair]_vars

\* C12 as amended: a registered change handler is called exactly once after
\* each field change that updates the state, with the (data, errors) pair
\* stored by that change, and is not called by a data replacement or by a
\* submit; without a registered handler the state is updated all the same
\* and nothing is notified.
C12_NotifiedOnFieldChange ==
  [][/\ ChangeStep =>
          /\ View(event'.path, state'.data) = event'.value
          /\ onChangeCalls' = IF props.onChange THEN StoredPair ELSE <<>>
     /\ event'.op \in {"receiveProps", "submit"} => onChangeCalls' = <<>>]_vars

\* A registered change handler has just received the pair stored by a field
\* change that recorded a message.
C12_Witness ==
  /\ event.op = "change"
  /\ props.onChange
  /\ IsMessage(View(event.path, state.errors))
  /\ onChangeCalls = <<[data |-> state.data, errors |-> state.errors]>>

\* What the error tree holds at P is the validation result of value v: the
\* entry's message if it yields one, no message otherwise.
ResultRecorded(P, v) ==
  IsEntry(Entry(P)) =>
    IF IsMessage(FirstMessage(Entry(P), v))
      THEN View(P, state.errors) = FirstMessage(Entry(P), v)
      ELSE ~IsMessage(View(P, state.errors))

\* C13: two events delivered before the state update of the first is
\* applied take effect in order, the second on the result of the first.
\* After two field changes at different paths the data tree holds both
\* values and the error tree both validation results; after a field change
\* and a submit, the data forwarded and validated holds the changed value.
C13_NoLostUpdate ==
  /\ event.op = "changes" =>
       /\ View(event.path, state.data) = event.value
       /\ View(event.path2, state.data) = event.value2
       /\ ResultRecorded(event.path, event.value)
       /\ ResultRecorded(event.path2, event.value2)
  /\ (event.op = "changeSubmit" /\ ~event.threw) =>
       /\ View(event.path, state.data) = event.value
       /\ onSubmitCalls = <<state.data>>
       /\ state.errors = FromScratch(state.data).ret

\* C14: no validator function is ever called with null or undefined; after a
\* field change every call got the changed value, with the empty string in
\* the place of a missing one.
C14_MissingValueIsEmptyString ==
  /\ \A i \in DOMAIN validatorCalls : ~IsNil(validatorCalls[i].arg)
  /\ event.op = "change" =>
       \A i \in DOMAIN validatorCalls :
         validatorCalls[i].arg = defaultToEmptyString(event.value)

\* The paths a host may read the data tree at around a step: every path of
\* keys of the tree before and after it, and every prefix of a field's path.
ReadPaths ==
  KeyPaths(state.data) \cup KeyPaths(state'.data) \cup
    {SubSeq(F, 1, n) : <<F, n>> \in
       {pn \in FormPaths(props.children) \X (1..2) : pn[2] <= Len(pn[1])}}

\* C16 as claimed: a field change at P leaves the value read at every path
\* that does not have P as a prefix what it was.
C16_OnlyBelowPathChanges ==
  [][ChangeStep =>
       \A Q \in ReadPaths :
         ~IsPrefix(event'.path, Q) => View(Q, state'.data) = View(Q, state.data)]_vars

\* C16 as amended: a field change at P leaves the value read at every path
\* that neither has P as a prefix nor is a prefix of P what it was.
C16_UnrelatedPathsKeepValue ==
  [][ChangeStep =>
       \A Q \in ReadPaths :
         (~IsPrefix(event'.path, Q) /\ ~IsPrefix(Q, event'.path))
           => View(Q, state'.data) = View(Q, state.data)]_vars

\* A field of a group has just been changed while its sibling held a value.
C16_Witness ==
  /\ event.op = "change"
  /\ event.path = <<"address", "zip">>
  /\ event.value = Str("")
  /\ View(<<"address", "street">>, state.data) = Str("a")

\* C17: after a field change at P with value v, reading the data tree at P
\* yields v, whether or not the intermediate nodes of P existed or were
\* leaves before; the same holds of the data handed to the change handler.
C17_LensRoundTrip ==
  [][ChangeStep =>
       /\ View(event'.path, state'.data) = event'.value
       /\ props.onChange =>
            /\ Len(onChangeCalls') = 1
            /\ View(event'.path, onChangeCalls'[1].data) = event'.value]_vars

\* A change below a node that was a leaf: the group now is a mapping that
\* holds the value at the path, next to the character the leaf was copied
\* from, and the change handler was called.
C17_Witness ==
  /\ event.op = "change"
  /\ Len(event.path) = 2
  /\ View(<<event.path[1], "0">>, state.data) = Str("a")
  /\ IsObj(View(<<event.path[1]>>, state.data))
  /\ View(event.path, state.data) = Str("a")
  /\ Len(onChangeCalls) = 1

\* C15 as claimed: in every state, a named element whose path has no
\* validator entry in the validation tree carries no entry in the error tree
\* other than null.
C15_NoEntryNoError ==
  \A P \in FormNamedPaths(props.children) :
    ~IsEntry(Entry(P)) => IsNil(View(P, state.errors))

\* C15 as amended: in every state, a named control whose path has no
\* validator entry carries no entry in the error tree other than null, and
\* no named element without a validator entry carries an error message (a
\* named group carries the mapping of its children's entries).
C15_NoEntryNoMessage ==
  /\ \A P \in FormPaths(props.children) :
       ~IsEntry(Entry(P)) => IsNil(View(P, state.errors))
  /\ \A P \in FormNamedPaths(props.children) :
       ~IsEntry(Entry(P)) => ~IsMessage(View(P, state.errors))

\* A control without a validator entry has just been changed, in a group
\* whose entry in the error tree a full validation left empty, while a
\* sibling with an entry holds its message.
C15_Witness ==
  /\ event.op = "change"
  /\ event.path = <<"extra", "memo">>
  /\ ~IsEntry(Entry(event.path))
  /\ View(event.path, state.data) = Str("a")
  /\ View(<<"extra">>, state.errors) = EmptyObj
  /\ IsMessage(View(<<"email">>, state.errors))

\* The path of a control disagrees with the shape of the validation tree: it
\* descends below a function or a list, or it ends on a mapping.
Mismatched(P) ==
  \/ \E n \in 1..(Len(P) - 1) : IsEntry(View(SubSeq(P, 1, n), props.validation))
  \/ IsObj(Entry(P))

\* C18: a field change at a mismatched path, and a submit of a form that
\* has a mismatched path, throw instead of completing, and leave the stored
\* data and error trees as they were.
C18_ShapeMismatchFailsFast ==
  [][/\ (event'.op = "change" /\ Mismatched(event'.path))
          => (event'.threw /\ state' = state)
     /\ (event'.op = "submit" /\ \E P \in FormPaths(props.children) : Mismatched(P))
          => (event'.threw /\ state' = state)]_vars

\* The paths the error tree may be read at around a step: every path of
\* keys of the tree before and after it, and the path of every control.
ErrorPaths ==
  KeyPaths(state.errors) \cup KeyPaths(state'.errors) \cup FormPaths(props.children)

\* C19: a field change at a path P that has a validator entry leaves the
\* error tree as it was at every path that is neither P, a prefix of P, nor
\* below P.
C19_OneEntryOnly ==
  [][(ChangeStep /\ IsEntry(Entry(event'.path))) =>
       \A Q \in ErrorPaths :
         (~IsPrefix(event'.path, Q) /\ ~IsPrefix(Q, event'.path))
           => View(Q, state'.errors) = View(Q, state.errors)]_vars

\* A field change has just recorded a message at its path while a control
\* of another group keeps the message it held.
C19_Witness ==
  /\ event.op = "change"
  /\ event.path = <<"nick">>
  /\ IsMessage(View(<<"nick">>, state.errors))
  /\ IsMessage(View(<<"address", "zip">>, state.errors))

\* C20: a submit that follows a submit stores the error tree the first one
\* stored and forwards the data tree the first one forwarded.
C20_SubmitIdempotent ==
  [][(event.op = "submit" /\ event'.op = "submit") =>
       /\ state'.errors = state.errors
       /\ onSubmitCalls' = onSubmitCalls]_vars

\* The second of two consecutive submits has stored an error tree that
\* holds a message and has forwarded the data.
C20_Witness ==
  /\ event.op = "submit"
  /\ event.again
  /\ ~event.threw
  /\ \E P \in FormPaths(props.children) : IsMessage(View(P, state.errors))
  /\ onSubmitCalls = <<state.data>>
====
